---- MODULE Spec2Model ----
(***************************************************************************)
(* Sanctions screening: the name-matching engine of src/src/matcher.py     *)
(* (SanctionsMatcher), the summary of src/src/main.py and the script       *)
(* src/test_matching.py.                                                   *)
(*                                                                         *)
(* A string is a sequence of one-character strings.  A pandas missing      *)
(* value is NaN.  A similarity score is an exact fraction <<n, d>> in      *)
(* lowest terms (rapidfuzz returns the float nearest to it).               *)
(***************************************************************************)
EXTENDS Integers, Sequences, FiniteSets, TLC

VARIABLES
    threshold,            \* SanctionsMatcher.threshold
    algorithm,            \* SanctionsMatcher.algorithm
    companies_df,         \* the subject roster, a sequence of rows
    has_id_column,        \* whether the roster has a company_id column
    sanctions_df,         \* the watchlist, a sequence of rows
    idx,                  \* match_companies: roster rows processed so far
    results,              \* match_companies: the rows appended so far, each with its origin
    pc,                   \* match_companies / main: where the run is
    summary,              \* main: the printed summary numbers
    raw,                  \* normalize_name: the input
    norm1,                \* normalize_name(raw)
    norm2,                \* normalize_name(norm1)
    script_company_name,         \* test_matching.py: company_name
    script_sanctions_name,       \* test_matching.py: sanctions_name
    script_normalized_company,   \* test_matching.py: normalized_company
    script_normalized_sanctions, \* test_matching.py: normalized_sanctions
    script_score,                \* test_matching.py: score
    script_is_match,             \* test_matching.py: score >= matcher.threshold
    script_pc                   \* test_matching.py: where the script is

vars == <<threshold, algorithm, companies_df, has_id_column, sanctions_df, idx,
          results, pc, summary, raw, norm1, norm2, script_company_name,
          script_sanctions_name, script_normalized_company, script_normalized_sanctions, script_score,
          script_is_match, script_pc>>

screenVars == <<companies_df, has_id_column, sanctions_df, idx, results,
                pc, summary>>
normVars == <<raw, norm1, norm2>>
scriptVars == <<script_company_name, script_sanctions_name, script_normalized_company,
                script_normalized_sanctions, script_score, script_is_match, script_pc>>

----------------------------------------------------------------------------
(* Strings *)

\* A missing value (numpy.nan, None): pd.isna is true of it and of no string.
NaN == <<"nan">>

\* A value not computed yet.
Unset == <<"unset">>

isna(x) == x = NaN

LowerCase == <<"a","b","c","d","e","f","g","h","i","j","k","l","m",
               "n","o","p","q","r","s","t","u","v","w","x","y","z">>
UpperCase == <<"A","B","C","D","E","F","G","H","I","J","K","L","M",
               "N","O","P","Q","R","S","T","U","V","W","X","Y","Z">>

\* The characters of the model in code point order (what sorted() compares).
CodePoints == <<" ", ",", "-", ".">> \o UpperCase \o LowerCase

ord(c) == CHOOSE i \in 1..Len(CodePoints) : CodePoints[i] = c

\* str.upper(), one character.
upper_char(c) ==
    IF \E i \in 1..Len(LowerCase) : LowerCase[i] = c
    THEN UpperCase[CHOOSE i \in 1..Len(LowerCase) : LowerCase[i] = c]
    ELSE c

\* str.upper()
upper(s) == [i \in 1..Len(s) |-> upper_char(s[i])]

\* s.startswith(old)
starts_with(s, old) == Len(s) >= Len(old) /\ SubSeq(s, 1, Len(old)) = old

\* s.replace(old, ''): every non-overlapping occurrence of the non-empty old,
\* found left to right in one pass, is removed.
RECURSIVE replace_empty(_, _)
replace_empty(s, old) ==
    IF Len(s) < Len(old) THEN s
    ELSE IF starts_with(s, old)
         THEN replace_empty(SubSeq(s, Len(old) + 1, Len(s)), old)
         ELSE <<s[1]>> \o replace_empty(Tail(s), old)

\* s.split(): the maximal runs of non-whitespace characters, in order.
RECURSIVE split_from(_, _, _)
split_from(s, cur, acc) ==
    IF s = <<>> THEN (IF cur = <<>> THEN acc ELSE Append(acc, cur))
    ELSE IF s[1] = " "
         THEN split_from(Tail(s), <<>>, IF cur = <<>> THEN acc ELSE Append(acc, cur))
         ELSE split_from(Tail(s), Append(cur, s[1]), acc)

split(s) == split_from(s, <<>>, <<>>)

\* ' '.join(tokens)
RECURSIVE join(_)
join(tokens) ==
    IF tokens = <<>> THEN <<>>
    ELSE IF Len(tokens) = 1 THEN tokens[1]
    ELSE tokens[1] \o <<" ">> \o join(Tail(tokens))

----------------------------------------------------------------------------
(* SanctionsMatcher.normalize_name *)

suffixes == <<
    <<"L","T","D">>,
    <<"L","I","M","I","T","E","D">>,
    <<"I","N","C">>,
    <<"I","N","C","O","R","P","O","R","A","T","E","D">>,
    <<"C","O","R","P">>,
    <<"C","O","R","P","O","R","A","T","I","O","N">>,
    <<"L","L","C">>,
    <<"G","M","B","H">>,
    <<"S","A">>,
    <<"S","P","A">>,
    <<"A","G">>,
    <<"N","V">>,
    <<"B","V">>,
    <<"S","P"," ","Z"," ","O","O">>,
    <<"S","P","."," ","Z"," ","O",".","O",".">> >>

\* One turn of the loop over the suffixes: ' ' + suffix, then '.' + suffix.
strip_suffix(name, suffix) ==
    replace_empty(replace_empty(name, <<" ">> \o suffix), <<".">> \o suffix)

\* The loop over the suffixes, in list order, from the k-th on.
RECURSIVE strip_suffixes(_, _)
strip_suffixes(name, k) ==
    IF k > Len(suffixes) THEN name
    ELSE strip_suffixes(strip_suffix(name, suffixes[k]), k + 1)

\* name.replace('.', '').replace(',', '').replace('-', '')
remove_punctuation(name) ==
    replace_empty(replace_empty(replace_empty(name, <<".">>), <<",">>), <<"-">>)

\* ' '.join(name.split())
collapse_spaces(name) == join(split(name))

normalize_name(name) ==
    IF isna(name) THEN <<>>
    ELSE collapse_spaces(remove_punctuation(strip_suffixes(upper(name), 1)))

----------------------------------------------------------------------------
(* Scores: exact fractions *)

RECURSIVE gcd(_, _)
gcd(a, b) == IF b = 0 THEN a ELSE gcd(b, a % b)

\* The fraction n/d (d > 0) in lowest terms.
frac(n, d) == LET g == gcd(n, d) IN <<n \div g, d \div g>>

\* x >= y, for fractions
score_ge(x, y) == x[1] * y[2] >= y[1] * x[2]

\* max(x, y)
score_max(x, y) == IF score_ge(x, y) THEN x ELSE y

----------------------------------------------------------------------------
(* rapidfuzz.fuzz, as SanctionsMatcher.calculate_similarity calls it *)

\* One row of the longest-common-subsequence table: prev is the row of the
\* characters before ch, cur the part of the new row already filled
\* (rows hold columns 0..Len(b) at positions 1..Len(b)+1).
RECURSIVE lcs_row(_, _, _, _)
lcs_row(prev, ch, b, cur) ==
    IF Len(cur) > Len(b) THEN cur
    ELSE lcs_row(prev, ch, b,
                 Append(cur, IF ch = b[Len(cur)] THEN prev[Len(cur)] + 1
                             ELSE IF prev[Len(cur) + 1] >= cur[Len(cur)]
                                  THEN prev[Len(cur) + 1]
                                  ELSE cur[Len(cur)]))

\* The table, row by row, from the i-th character of a on.
RECURSIVE lcs_table(_, _, _, _)
lcs_table(a, b, i, prev) ==
    IF i > Len(a) THEN prev[Len(b) + 1]
    ELSE LET row == lcs_row(prev, a[i], b, <<0>>)
         \* (the test of Len(row) makes TLC compute the row before the next one)
         IN IF Len(row) = Len(b) + 1 THEN lcs_table(a, b, i + 1, row) ELSE 0

\* The length of a longest common subsequence of a and b.
lcs(a, b) == lcs_table(a, b, 1, [j \in 1..(Len(b) + 1) |-> 0])

\* Indel distance: insertions and deletions turning a into b.
indel_distance(a, b) == Len(a) + Len(b) - 2 * lcs(a, b)

\* 100 - 100 * dist / lensum, and 100 when both strings are empty.
norm_distance(dist, lensum) ==
    IF lensum = 0 THEN <<100, 1>> ELSE frac(100 * (lensum - dist), lensum)

\* fuzz.ratio
ratio(a, b) == norm_distance(indel_distance(a, b), Len(a) + Len(b))

\* a < b for strings: lexicographic on code points.
RECURSIVE str_less(_, _)
str_less(a, b) ==
    IF b = <<>> THEN FALSE
    ELSE IF a = <<>> THEN TRUE
    ELSE IF a[1] = b[1] THEN str_less(Tail(a), Tail(b))
    ELSE ord(a[1]) < ord(b[1])

\* sorted(tokens), tokens a set of strings
RECURSIVE sorted_set(_)
sorted_set(T) ==
    IF T = {} THEN <<>>
    ELSE LET m == CHOOSE x \in T : \A y \in T \ {x} : str_less(x, y)
         IN <<m>> \o sorted_set(T \ {m})

\* sorted(tokens), tokens a list of strings: equal strings are
\* indistinguishable, so each distinct token, in order, repeated as it occurs.
RECURSIVE repeat(_, _)
repeat(x, n) == IF n = 0 THEN <<>> ELSE <<x>> \o repeat(x, n - 1)

RECURSIVE sorted_expand(_, _)
sorted_expand(distinct, tokens) ==
    IF distinct = <<>> THEN <<>>
    ELSE repeat(distinct[1],
                Cardinality({i \in 1..Len(tokens) : tokens[i] = distinct[1]}))
         \o sorted_expand(Tail(distinct), tokens)

sorted_list(tokens) ==
    sorted_expand(sorted_set({tokens[i] : i \in 1..Len(tokens)}), tokens)

\* fuzz.token_sort_ratio
token_sort_ratio(a, b) ==
    ratio(join(sorted_list(split(a))), join(sorted_list(split(b))))

\* fuzz.token_set_ratio
token_set_ratio(a, b) ==
    LET tokens_a == {split(a)[i] : i \in 1..Len(split(a))}
        tokens_b == {split(b)[i] : i \in 1..Len(split(b))}
        intersect == tokens_a \cap tokens_b
        diff_ab == join(sorted_set(tokens_a \ tokens_b))
        diff_ba == join(sorted_set(tokens_b \ tokens_a))
        sect_len == Len(join(sorted_set(intersect)))
        sep == IF sect_len = 0 THEN 0 ELSE 1
        sect_ab_len == sect_len + sep + Len(diff_ab)
        sect_ba_len == sect_len + sep + Len(diff_ba)
        result == norm_distance(indel_distance(diff_ab, diff_ba),
                                sect_ab_len + sect_ba_len)
    IN IF tokens_a = {} \/ tokens_b = {} THEN <<0, 1>>
       ELSE IF intersect # {} /\ (tokens_a \ tokens_b = {} \/ tokens_b \ tokens_a = {})
            THEN <<100, 1>>
       ELSE IF sect_len = 0 THEN result
       ELSE score_max(result,
              score_max(norm_distance(sep + Len(diff_ab), sect_len + sect_ab_len),
                        norm_distance(sep + Len(diff_ba), sect_len + sect_ba_len)))

\* calculate_similarity with the two token branches exchanged.
calculate_similarity_swapped(alg, name1, name2) ==
    IF alg = "token_sort_ratio" THEN token_set_ratio(name1, name2)
    ELSE IF alg = "token_set_ratio" THEN token_sort_ratio(name1, name2)
    ELSE ratio(name1, name2)

\* calculate_similarity falling back to token_sort_ratio instead of ratio.
calculate_similarity_sort_default(alg, name1, name2) ==
    IF alg = "token_set_ratio" THEN token_set_ratio(name1, name2)
    ELSE IF alg = "ratio" THEN ratio(name1, name2)
    ELSE token_sort_ratio(name1, name2)

\* SanctionsMatcher.calculate_similarity
calculate_similarity(alg, name1, name2) ==
    IF alg = "token_sort_ratio" THEN token_sort_ratio(name1, name2)
    ELSE IF alg = "token_set_ratio" THEN token_set_ratio(name1, name2)
    ELSE ratio(name1, name2)

\* The threshold test made exclusive: score > self.threshold
meets_threshold_strict(s, t) == s[1] > t * s[2]

\* score >= self.threshold
meets_threshold(s, t) == s[1] >= t * s[2]

----------------------------------------------------------------------------
(* SanctionsMatcher.match_single_company *)

\* Python's None, in a result row.
None == <<"None">>

\* The dict appended for a watchlist row that meets the threshold; watch_idx
\* is the loop's idx (the row's label), which the code binds and does not store.
match_of(row, j, sanctions_name, s) ==
    [ sanctions_name            |-> row.name,
      normalized_sanctions_name |-> sanctions_name,
      type                      |-> row.type,
      reference_number          |-> row.reference_number,
      list_type                 |-> row.list_type,
      source                    |-> row.source,
      score                     |-> s,
      watch_idx                 |-> j ]

\* The loop over the watchlist, from row j on: matches in watchlist order.
RECURSIVE compare_all(_, _, _, _, _)
compare_all(normalized_company, sanctions, j, alg, t) ==
    IF j > Len(sanctions) THEN <<>>
    ELSE LET row == sanctions[j]
             sanctions_name == normalize_name(row.name)
             s == calculate_similarity(alg, normalized_company, sanctions_name)
             rest == compare_all(normalized_company, sanctions, j + 1, alg, t)
         IN IF sanctions_name = <<>> THEN rest
            ELSE IF meets_threshold(s, t)
                 THEN <<match_of(row, j, sanctions_name, s)>> \o rest
                 ELSE rest

\* The sort done ascending and then reversed: m goes before the matches of
\* equal score.
RECURSIVE insert_match_reversed(_, _)
insert_match_reversed(sorted, m) ==
    IF sorted = <<>> THEN <<m>>
    ELSE IF sorted[1].score[1] * m.score[2] > m.score[1] * sorted[1].score[2]
         THEN <<sorted[1]>> \o insert_match_reversed(Tail(sorted), m)
         ELSE <<m>> \o sorted

\* Where list.sort(key=score, reverse=True) puts m among the matches already
\* in place: after every match whose score is greater or equal (the sort is
\* stable, also when reversed).
RECURSIVE insert_match(_, _)
insert_match(sorted, m) ==
    IF sorted = <<>> THEN <<m>>
    ELSE IF score_ge(sorted[1].score, m.score)
         THEN <<sorted[1]>> \o insert_match(Tail(sorted), m)
         ELSE <<m>> \o sorted

\* matches.sort(key=lambda x: x['score'], reverse=True)
RECURSIVE sort_from(_, _)
sort_from(matches, sorted) ==
    IF matches = <<>> THEN sorted
    ELSE sort_from(Tail(matches), insert_match(sorted, matches[1]))

sort_matches(matches) == sort_from(matches, <<>>)

match_single_company(name, sanctions, alg, t) ==
    LET normalized_company == normalize_name(name)
    IN IF normalized_company = <<>> THEN <<>>
       ELSE sort_matches(compare_all(normalized_company, sanctions, 1, alg, t))

----------------------------------------------------------------------------
(* SanctionsMatcher.match_companies *)

\* company.get('company_id', idx): the column's value, or the row's label
\* (its position, from 0) when the roster has no such column.
company_id_of(company, i, has_col) == IF has_col THEN company.company_id ELSE i - 1

match_row(id, company, m) ==
    [ company_id       |-> id,
      company_name     |-> company.company_name,
      country          |-> company.country,
      match_found      |-> TRUE,
      sanctions_name   |-> m.sanctions_name,
      reference_number |-> m.reference_number,
      list_type        |-> m.list_type,
      source           |-> m.source,
      match_score      |-> m.score ]

clean_row(id, company) ==
    [ company_id       |-> id,
      company_name     |-> company.company_name,
      country          |-> company.country,
      match_found      |-> FALSE,
      sanctions_name   |-> None,
      reference_number |-> None,
      list_type        |-> None,
      source           |-> None,
      match_score      |-> None ]

\* emit with the else on the for loop instead of the if: the clean row is
\* appended after the match rows as well.
emit_for_else(i, id, company, matches) ==
    [k \in 1..Len(matches) |->
        [ row    |-> match_row(id, company, matches[k]),
          origin |-> [subject |-> i, record |-> matches[k].watch_idx] ]]
    \o << [ row    |-> clean_row(id, company),
            origin |-> [subject |-> i, record |-> 0] ] >>

\* What one roster row adds to results: a match row per match, in the order
\* of matches, or else one clean row.  Each row is kept with its origin, a
\* history value: the roster row i and the watchlist row (0: none) it comes from.
emit(i, id, company, matches) ==
    IF matches # <<>>
    THEN [k \in 1..Len(matches) |->
            [ row    |-> match_row(id, company, matches[k]),
              origin |-> [subject |-> i, record |-> matches[k].watch_idx] ]]
    ELSE << [ row    |-> clean_row(id, company),
              origin |-> [subject |-> i, record |-> 0] ] >>

\* The new rows put in front of the table instead of at its end.
extend_results_front(old, new) == new \o old

\* results.append(...), for each of the new rows in turn
extend_results(old, new) == old \o new

\* One turn of the loop over the roster.
CheckCompany ==
    /\ pc = "loop"
    /\ idx < Len(companies_df)
    /\ results' =
          extend_results(results,
              emit(idx + 1,
                   company_id_of(companies_df[idx + 1], idx + 1, has_id_column),
                   companies_df[idx + 1],
                   match_single_company(companies_df[idx + 1].company_name,
                                        sanctions_df, algorithm, threshold)))
    /\ idx' = idx + 1
    /\ UNCHANGED <<threshold, algorithm, companies_df, has_id_column,
                   sanctions_df, pc, summary, normVars, scriptVars>>

\* After the loop: pd.DataFrame(results), then results_df['match_found'].sum()
\* for the log line.  A DataFrame built from an empty list has no columns, and
\* selecting 'match_found' from it raises KeyError.
frame_outcome(rows) == IF rows = <<>> THEN "raised" ELSE "returned"

BuildFrame ==
    /\ pc = "loop"
    /\ idx = Len(companies_df)
    /\ pc' = frame_outcome(results)
    /\ UNCHANGED <<threshold, algorithm, companies_df, has_id_column, sanctions_df,
                   idx, results, summary, normVars, scriptVars>>

----------------------------------------------------------------------------
(* main: the summary *)

\* matches = results_df[results_df['match_found'] == True]
match_rows(rows) == {k \in 1..Len(rows) : rows[k].row.match_found}

\* matches['company_id'].nunique(): the distinct values, missing ones dropped.
nunique(rows, has_col) ==
    Cardinality({rows[k].row.company_id : k \in
        {k \in match_rows(rows) : has_col => ~isna(rows[k].row.company_id)}})

summary_of(rows, n_companies, has_col) ==
    [ total           |-> n_companies,
      unique_matched  |-> nunique(rows, has_col),
      match_records   |-> Cardinality(match_rows(rows)),
      clean_companies |-> n_companies - nunique(rows, has_col) ]

\* main runs the matcher only on a non-empty watchlist (it returns early
\* otherwise), and summarises what match_companies returned.
Summarise ==
    /\ pc = "returned"
    /\ sanctions_df # <<>>
    /\ summary' = summary_of(results, Len(companies_df), has_id_column)
    /\ pc' = "summarised"
    /\ UNCHANGED <<threshold, algorithm, companies_df, has_id_column, sanctions_df,
                   idx, results, normVars, scriptVars>>

----------------------------------------------------------------------------
(* test_matching.py *)

\* normalized_company, normalized_sanctions = matcher.normalize_name(...)
ScriptNormalize ==
    /\ script_pc = "start"
    /\ script_normalized_company' = normalize_name(script_company_name)
    /\ script_normalized_sanctions' = normalize_name(script_sanctions_name)
    /\ script_pc' = "normalized"
    /\ UNCHANGED <<threshold, algorithm, screenVars, normVars, script_company_name,
                   script_sanctions_name, script_score, script_is_match>>

\* score = matcher.calculate_similarity(normalized_company, normalized_sanctions)
ScriptScore ==
    /\ script_pc = "normalized"
    /\ script_score' = calculate_similarity(algorithm, script_normalized_company,
                                            script_normalized_sanctions)
    /\ script_pc' = "scored"
    /\ UNCHANGED <<threshold, algorithm, screenVars, normVars, script_company_name,
                   script_sanctions_name, script_normalized_company,
                   script_normalized_sanctions, script_is_match>>

\* print(f"Match: {score >= matcher.threshold}")
ScriptCompare ==
    /\ script_pc = "scored"
    /\ script_is_match' = meets_threshold(script_score, threshold)
    /\ script_pc' = "done"
    /\ UNCHANGED <<threshold, algorithm, screenVars, normVars, script_company_name,
                   script_sanctions_name, script_normalized_company,
                   script_normalized_sanctions, script_score>>

----------------------------------------------------------------------------
(* normalize_name applied, and applied again to its own result *)

Normalize ==
    /\ raw # Unset
    /\ norm1 = Unset
    /\ norm1' = normalize_name(raw)
    /\ UNCHANGED <<threshold, algorithm, screenVars, scriptVars, raw, norm2>>

NormalizeAgain ==
    /\ norm1 # Unset
    /\ norm2 = Unset
    /\ norm2' = normalize_name(norm1)
    /\ UNCHANGED <<threshold, algorithm, screenVars, scriptVars, raw, norm1>>

----------------------------------------------------------------------------
(* Inputs *)

MaxCompanies == 2
MaxSanctions == 3
MaxLen == 5
MaxBaseLen == 3

\* The config of test_matching.py
ScriptThreshold == 85
ScriptAlgorithm == "token_sort_ratio"

SeqsUpTo(S, n) == UNION {[1..k -> S] : k \in 0..n}

\* s has an occurrence of the non-empty sub
contains(s, sub) ==
    \E i \in 1..(Len(s) - Len(sub) + 1) : SubSeq(s, i, i + Len(sub) - 1) = sub

Thresholds == {50, 51}
Algorithms == {"ratio", "token_sort_ratio", "token_set_ratio"}
Selectors == Algorithms \cup {"unknown_value", "Token_Sort_Ratio", ""}

\* Roster rows: "a-b Ltd." normalizes to "AB", a missing name to "".
CompanyNames == { <<"a","-","b"," ","L","t","d",".">>, NaN }
CompanyIds == { <<"1">>, NaN }
Companies(has_col) ==
    [ company_id   : IF has_col THEN CompanyIds ELSE {None},
      company_name : CompanyNames,
      country      : {<<"P","L">>} ]

\* parse_eu_xml's list_type
EUListType ==
    <<"E","U"," ","C","o","n","s","o","l","i","d","a","t","e","d"," ","L","i","s","t">>

\* Watchlist rows, one per name variant as the parsers build them: two
\* aliases of R1 that both score 50 against "AB", an entity "AB S.A." that
\* scores higher, and a name that normalizes to "".
Sanctions == {
    [ name |-> <<"A","C">>, reference_number |-> <<"R","1">>,
      list_type |-> <<"U","N">>, source |-> <<"U","N">>, type |-> "INDIVIDUAL" ],
    [ name |-> <<"A",".","D">>, reference_number |-> <<"R","1">>,
      list_type |-> <<"U","N">>, source |-> <<"U","N">>, type |-> "INDIVIDUAL" ],
    [ name |-> <<"A","B"," ","S",".","A",".">>, reference_number |-> <<"R","2">>,
      list_type |-> EUListType, source |-> <<"E","U">>, type |-> "ENTITY" ],
    [ name |-> <<".">>, reference_number |-> <<"R","3">>,
      list_type |-> EUListType, source |-> <<"E","U">>, type |-> "ENTITY" ] }

Watchlists ==
    {w \in SeqsUpTo(Sanctions, MaxSanctions) :
        \A i, j \in 1..Len(w) : w[i] = w[j] => i = j}

\* normalize_name inputs: every string up to MaxLen over NormAlphabet, a
\* missing value, and every base name followed by ' ' and a listed suffix.
NormAlphabet == {"A", "G", "a", " ", ".", ",", "-"}
BaseAlphabet == {"A", "G", " "}

has_suffix_occurrence(s) ==
    \E k \in 1..Len(suffixes) :
        contains(s, <<" ">> \o suffixes[k]) \/ contains(s, <<".">> \o suffixes[k])

Bases ==
    {b \in SeqsUpTo(BaseAlphabet, MaxBaseLen) :
        b # <<>> /\ normalize_name(b) = b /\ ~has_suffix_occurrence(b)}

NormInputs ==
    {NaN} \cup SeqsUpTo(NormAlphabet, MaxLen)
          \cup {b \o <<" ">> \o suffixes[k] : b \in Bases, k \in 1..Len(suffixes)}

\* test_matching.py's two names, and short ones
ScenarioCompany ==
    <<"F","r","a","n","k"," ","K","a","k","o","r","e","r","e"," ",
      "E","n","t","e","r","p","r","i","s","e","s">>
ScenarioSanctions == <<"F","R","A","N","K"," ","K","A","K","O","R","E","R","E">>
ScriptNames ==
    { ScenarioCompany, ScenarioSanctions, <<"B"," ","A">>, <<"A"," ","B">>,
      <<"A","B">>, <<>> }

----------------------------------------------------------------------------
(* Specifications *)

ScreenIdle ==
    /\ companies_df = <<>> /\ has_id_column = FALSE /\ sanctions_df = <<>>
    /\ idx = 0 /\ results = <<>> /\ pc = "idle"
    /\ summary = None

NormIdle == raw = Unset /\ norm1 = Unset /\ norm2 = Unset

ScriptIdle ==
    /\ script_company_name = Unset /\ script_sanctions_name = Unset
    /\ script_normalized_company = Unset /\ script_normalized_sanctions = Unset
    /\ script_score = Unset /\ script_is_match = Unset /\ script_pc = "idle"

\* main: a matcher built from the config, a roster and a watchlist loaded,
\* match_companies entered.
Init ==
    /\ threshold \in Thresholds
    /\ algorithm \in Algorithms \cup {"unknown_value"}
    /\ has_id_column \in BOOLEAN
    /\ companies_df \in SeqsUpTo(Companies(has_id_column), MaxCompanies)
    /\ sanctions_df \in Watchlists
    /\ idx = 0 /\ results = <<>> /\ pc = "loop"
    /\ summary = None
    /\ NormIdle /\ ScriptIdle

Next == CheckCompany \/ BuildFrame \/ Summarise

Spec == Init /\ [][Next]_vars

\* normalize_name on its own.
InitNormalize ==
    /\ threshold = ScriptThreshold /\ algorithm = ScriptAlgorithm
    /\ raw \in NormInputs /\ norm1 = Unset /\ norm2 = Unset
    /\ ScreenIdle /\ ScriptIdle

NextNormalize == Normalize \/ NormalizeAgain

SpecNormalize == InitNormalize /\ [][NextNormalize]_vars

\* test_matching.py, its two names and its selector drawn from sets.
InitScript ==
    /\ threshold = ScriptThreshold
    /\ algorithm \in Selectors
    /\ script_company_name \in ScriptNames
    /\ script_sanctions_name \in ScriptNames
    /\ script_normalized_company = Unset /\ script_normalized_sanctions = Unset
    /\ script_score = Unset /\ script_is_match = Unset /\ script_pc = "start"
    /\ ScreenIdle /\ NormIdle

NextScript == ScriptNormalize \/ ScriptScore \/ ScriptCompare

SpecScript == InitScript /\ [][NextScript]_vars

----------------------------------------------------------------------------
(* Properties of a screening run *)

\* match_companies has returned its table.
Returned == pc \in {"returned", "summarised"}

Subjects == 1..Len(companies_df)
Records == 1..Len(sanctions_df)
Rows == 1..Len(results)

subject_name(i) == normalize_name(companies_df[i].company_name)
record_name(j) == normalize_name(sanctions_df[j].name)
pair_score(i, j) == calculate_similarity(algorithm, subject_name(i), record_name(j))

\* s >= t, for a fraction s and an integer t
at_least(s, t) == s[1] >= t * s[2]

\* The watchlist rows the evaluator keeps for a subject whose normalized name
\* is name.  (Quantifying over a one-element set names a value once computed.)
kept_for(name) ==
    {j \in Records :
        /\ name # <<>>
        /\ \E other \in {record_name(j)} :
              /\ other # <<>>
              /\ \E s \in {calculate_similarity(algorithm, name, other)} :
                    at_least(s, threshold)}

kept(i) == kept_for(subject_name(i))

\* The rows of the table that subject i produced.
block(i) == {k \in Rows : results[k].origin.subject = i}

is_clean(r) ==
    /\ r.match_found = FALSE
    /\ r.sanctions_name = None /\ r.reference_number = None
    /\ r.list_type = None /\ r.source = None /\ r.match_score = None

\* C1: in the returned table every subject with no kept watchlist row (an
\* empty normalized name included) has exactly one row, a clean one; every
\* other subject has no clean row and exactly one match row per kept
\* watchlist row, aliases of one reference_number each getting their own.
C1_RowsPerSubject ==
    pc = "returned" =>
        \A i \in Subjects :
            \A keep \in {kept(i)} : \A rows \in {block(i)} :
                IF keep = {}
                THEN /\ Cardinality(rows) = 1
                     /\ \A k \in rows : is_clean(results[k].row)
                ELSE /\ \A k \in rows :
                        /\ results[k].row.match_found = TRUE
                        /\ results[k].origin.record \in keep
                        /\ results[k].row.sanctions_name =
                               sanctions_df[results[k].origin.record].name
                        /\ results[k].row.reference_number =
                               sanctions_df[results[k].origin.record].reference_number
                     /\ \A j \in keep :
                        Cardinality({k \in rows : results[k].origin.record = j}) = 1

\* A table with a clean row for a subject whose name normalizes to "" and two
\* match rows of another subject for two aliases of one reference_number.
C1_Witness ==
    /\ pc = "returned"
    /\ \E i \in Subjects : subject_name(i) = <<>> /\ Cardinality(block(i)) = 1
    /\ \E k1, k2 \in Rows :
          /\ k1 # k2
          /\ results[k1].origin.subject = results[k2].origin.subject
          /\ results[k1].row.match_found /\ results[k2].row.match_found
          /\ results[k1].row.reference_number = results[k2].row.reference_number
          /\ results[k1].row.sanctions_name # results[k2].row.sanctions_name

\* C4: a watchlist row with a non-empty normalized name yields a candidate
\* for a subject with a non-empty normalized name exactly when its score is
\* >= threshold, and never more than one: at score = threshold it is kept, at
\* score = threshold - 1 it is dropped.
C4_ThresholdInclusive ==
    pc = "returned" =>
        \A i \in Subjects : \A name \in {subject_name(i)} : \A rows \in {block(i)} :
            name # <<>> =>
                \A j \in Records : \A other \in {record_name(j)} :
                    other # <<>> =>
                        \A s \in {calculate_similarity(algorithm, name, other)} :
                        \A n \in {Cardinality({k \in rows : results[k].origin.record = j})} :
                            /\ n <= 1
                            /\ (n = 1) <=> (s[1] >= threshold * s[2])
                            /\ (s[1] = threshold * s[2]) => n = 1
                            /\ (s[1] = (threshold - 1) * s[2]) => n = 0

\* A match row whose score is exactly the threshold.
C4_Witness ==
    /\ pc = "returned"
    /\ \E k \in Rows :
          /\ results[k].row.match_found
          /\ results[k].row.match_score = <<threshold, 1>>
          /\ pair_score(results[k].origin.subject, results[k].origin.record) = <<threshold, 1>>

\* C5: the match rows of one subject are in score order, highest first, and
\* two of equal score are in watchlist order.
C5_Ranking ==
    \A k1, k2 \in Rows :
        (/\ k1 < k2
         /\ results[k1].origin.subject = results[k2].origin.subject
         /\ results[k1].row.match_found /\ results[k2].row.match_found) =>
            LET s1 == results[k1].row.match_score
                s2 == results[k2].row.match_score
            IN /\ s1[1] * s2[2] >= s2[1] * s1[2]
               /\ (s1 = s2) => results[k1].origin.record < results[k2].origin.record

\* Two rows of equal score after a row of a higher score that comes later in
\* the watchlist than both.
C5_Witness ==
    \E k0, k1, k2 \in Rows :
        /\ k0 < k1 /\ k1 < k2
        /\ results[k0].origin.subject = results[k1].origin.subject
        /\ results[k1].origin.subject = results[k2].origin.subject
        /\ results[k1].row.match_score = results[k2].row.match_score
        /\ results[k0].row.match_score # results[k1].row.match_score
        /\ results[k0].origin.record > results[k2].origin.record

\* C6: the rows of the table are the subjects' blocks one after the other in
\* roster order; a block's rows are the evaluator's matches in its order, and
\* each carries its subject's company_id, company_name and country.
C6_OutputOrder ==
    pc = "returned" =>
        /\ \A k1, k2 \in Rows :
              k1 < k2 => results[k1].origin.subject <= results[k2].origin.subject
        /\ \A i \in Subjects : \A rows \in {block(i)} :
              /\ rows # {}
              /\ \A first \in {f \in rows : \A g \in rows : f <= g} :
                 \A ms \in {match_single_company(companies_df[i].company_name,
                                                 sanctions_df, algorithm, threshold)} :
                 \A k \in rows :
                       /\ results[k].row.company_id =
                              (IF has_id_column THEN companies_df[i].company_id ELSE i - 1)
                       /\ results[k].row.company_name = companies_df[i].company_name
                       /\ results[k].row.country = companies_df[i].country
                       /\ results[k].row.match_found =>
                              /\ k - first + 1 <= Len(ms)
                              /\ results[k].origin.record = ms[k - first + 1].watch_idx
                              /\ results[k].row.match_score = ms[k - first + 1].score
                              /\ results[k].row.sanctions_name = ms[k - first + 1].sanctions_name

\* Two subjects with different company_id, the first with two match rows of
\* different scores, the second with a row of its own after them.
C6_Witness ==
    /\ pc = "returned"
    /\ \E k1, k2, k3 \in Rows :
          /\ k1 < k2 /\ k2 < k3
          /\ results[k1].origin.subject = 1 /\ results[k2].origin.subject = 1
          /\ results[k3].origin.subject = 2
          /\ results[k1].row.match_found /\ results[k2].row.match_found
          /\ results[k1].row.match_score # results[k2].row.match_score
          /\ results[k1].row.company_id # results[k3].row.company_id

\* C2: coverage.  In the returned table the clean rows plus the distinct
\* company_id values of the match rows number the subjects, and the summary's
\* clean count (total - distinct matched) is the number of clean rows.
C2_Coverage ==
    /\ pc = "returned" =>
          Cardinality({k \in Rows : ~results[k].row.match_found})
            + Cardinality({results[k].row.company_id :
                              k \in {k \in Rows : results[k].row.match_found}})
          = Len(companies_df)
    /\ pc = "summarised" =>
          summary.clean_companies
          = Cardinality({k \in Rows : ~results[k].row.match_found})

\* C7: match_companies on an empty roster returns an empty table without
\* raising, and on an empty watchlist returns one clean row per subject.
C7_BoundaryInputs ==
    (pc # "loop") =>
        /\ companies_df = <<>> => (pc # "raised" /\ results = <<>>)
        /\ sanctions_df = <<>> =>
              /\ pc # "raised"
              /\ Len(results) = Len(companies_df)
              /\ \A k \in Rows : is_clean(results[k].row) /\ results[k].origin.subject = k

----------------------------------------------------------------------------
(* Properties of normalize_name *)

\* C3: normalize_name is idempotent: applied to its own result it returns it.
C3_Idempotent == (norm2 # Unset) => (norm2 = norm1)

\* C10: a listed suffix after a base name and a space is stripped whole: for
\* a normalized base name b without ' ' + T or '.' + T for any listed T,
\* normalize_name(b + ' ' + S) = b for every listed S.
C10_SuffixStripped ==
    (norm1 # Unset) =>
        \A k \in 1..Len(suffixes) : \A b \in Bases :
            (raw = b \o <<" ">> \o suffixes[k]) => norm1 = b

----------------------------------------------------------------------------
(* Properties of test_matching.py *)

ScriptDone == script_pc = "done"

ScenarioA ==
    /\ script_company_name = ScenarioCompany
    /\ script_sanctions_name = ScenarioSanctions
    /\ algorithm = "token_sort_ratio"
    /\ threshold = ScriptThreshold

ScenarioNormalized ==
    /\ script_normalized_company =
          <<"F","R","A","N","K"," ","K","A","K","O","R","E","R","E"," ",
            "E","N","T","E","R","P","R","I","S","E","S">>
    /\ script_normalized_sanctions =
          <<"F","R","A","N","K"," ","K","A","K","O","R","E","R","E">>

\* C8 as claimed: in scenario A the names normalize to 'FRANK KAKORERE
\* ENTERPRISES' and 'FRANK KAKORERE', the token_sort_ratio score exceeds 85
\* and the pair is reported as a match.
C8_ScenarioA_Claimed ==
    (ScriptDone /\ ScenarioA) =>
        /\ ScenarioNormalized
        /\ script_score[1] > ScriptThreshold * script_score[2]
        /\ script_is_match = TRUE

\* C8 amended: in scenario A the names normalize to 'FRANK KAKORERE
\* ENTERPRISES' and 'FRANK KAKORERE', the token_sort_ratio score is
\* 100 * 2 * 14 / (26 + 14) = 70, below 85, and the pair is not a match.
C8_ScenarioA_Amended ==
    (ScriptDone /\ ScenarioA) =>
        /\ ScenarioNormalized
        /\ script_score = <<70, 1>>
        /\ script_is_match = FALSE

\* The script has run to its end on scenario A.
C8_Witness == ScriptDone /\ ScenarioA /\ script_score # Unset

\* C9: with a selector other than 'token_sort_ratio' and 'token_set_ratio'
\* calculate_similarity returns a score, the one ratio returns: for 'B A'
\* against 'A B' that is 100 * 2 * 1 / 6, where token_sort_ratio gives 100.
C9_UnknownSelectorIsRatio ==
    (script_pc \in {"scored", "done"}
        /\ algorithm \notin {"token_sort_ratio", "token_set_ratio"}) =>
        /\ script_score # Unset
        /\ script_score = ratio(script_normalized_company, script_normalized_sanctions)
        /\ (script_normalized_company = <<"B"," ","A">>
              /\ script_normalized_sanctions = <<"A"," ","B">>) =>
                 script_score = <<100, 3>>

\* 'B A' against 'A B' scored under the selector 'unknown_value'.
C9_Witness ==
    /\ ScriptDone
    /\ algorithm = "unknown_value"
    /\ script_normalized_company = <<"B"," ","A">>
    /\ script_normalized_sanctions = <<"A"," ","B">>
    /\ script_score = <<100, 3>>

====
